---- MODULE Spec2Model ----
(***************************************************************************)
(* Model of the email-agent worker: the scheduler loop of main.py, the     *)
(* persisted state of main.py / state_store.py, and the classifier and     *)
(* grouping functions of summarizer.py.                                    *)
(*                                                                         *)
(* Time is counted in seconds.  A datetime is the number of seconds since  *)
(* midnight of day 0: its date is Day(t), its time of day Tod(t).          *)
(***************************************************************************)
EXTENDS Integers, Sequences, FiniteSets, TLC

VARIABLES
    clk,        \* wall clock (datetime.now(tz)), in seconds
    pc,         \* position of the worker process in main_loop / run_once
    now,        \* main_loop's local `now` of the current iteration
    due_slot,   \* main_loop's local `due_slot`
    state,      \* main_loop's in-memory `state` dict
    file,       \* content of STATE_PATH on disk
    run_times,  \* RUN_TIMES (environment), a list of "HH:MM" strings
    heartbeat,  \* HEARTBEAT_WHEN_EMPTY (environment)
    emails,     \* run_once's local `emails`
    items,      \* run_once's local `items`
    store,      \* content of the alert-state file of state_store.py
    restarts,   \* how many times the process was killed and restarted
    starts,     \* history: <<date, slot>> -> number of run_once calls started
    missed,     \* history: <<date, slot>> seen due and unrecorded by an evaluation
    cyc,        \* history of the current iteration
    alerted_at, \* history: groupKey -> clock of the last message holding it
    boot_file,  \* history: kind of the file read by the last _load_state
    call,       \* pure-function checks: the call and its argument
    ret         \* pure-function checks: the returned value

vars == <<clk, pc, now, due_slot, state, file, run_times, heartbeat, emails,
          items, store, restarts, starts, missed, cyc, alerted_at,
          boot_file, call, ret>>

loopvars == <<clk, pc, now, due_slot, state, file, run_times, heartbeat, emails,
              items, store, restarts, starts, missed, cyc, alerted_at, boot_file>>

-----------------------------------------------------------------------------
(* Bounds of the model *)

MaxHours == 43       \* the clock stops MaxHours hours after midnight of day 0
MaxRestarts == 1     \* kills of the process
SubSteps == 2        \* clock readings per second in the sleep computation

Hour == 60 * 60
DayLen == 24 * Hour

\* the times of day 0 at which the process is first started
BootTimes == {0, 12 * Hour + 1800, DayLen - 3}

\* how long the process stays down after a kill
DownTimes == {0, 7 * Hour}

Horizon == MaxHours * Hour

Day(t) == t \div DayLen
Tod(t) == t % DayLen

None == "None"

Range(s) == {s[i] : i \in 1..Len(s)}

Max(a, b) == IF a >= b THEN a ELSE b
Min(a, b) == IF a <= b THEN a ELSE b

-----------------------------------------------------------------------------
(* main.py: configuration and schedule *)

\* time.sleep(5) after a run
PostRunSleep == 5

\* int(hh), int(mm) of an "HH:MM" string, as seconds after midnight
HHMM(t) ==
    CASE t = "00:00" -> 0
      [] t = "09:00" -> 9 * Hour
      [] t = "9:00"  -> 9 * Hour
      [] t = "12:00" -> 12 * Hour
      [] t = "18:00" -> 18 * Hour

\* order of the strings themselves (Python compares them when hh, mm tie)
StrRank(t) ==
    CASE t = "00:00" -> 0
      [] t = "09:00" -> 1
      [] t = "12:00" -> 2
      [] t = "18:00" -> 3
      [] t = "9:00"  -> 4

\* tuple comparison (hh, mm, t) < (hh', mm', t')
TupleLess(a, b) ==
    \/ a.at < b.at
    \/ a.at = b.at /\ StrRank(a.slot) < StrRank(b.slot)

RECURSIVE Insert(_, _)
Insert(e, s) ==
    IF s = <<>> THEN <<e>>
    ELSE IF TupleLess(e, Head(s)) THEN <<e>> \o s
    ELSE <<Head(s)>> \o Insert(e, Tail(s))

RECURSIVE SortTuples(_)
SortTuples(s) == IF s = <<>> THEN <<>> ELSE Insert(Head(s), SortTuples(Tail(s)))

\* _parse_times: out.append((int(hh), int(mm), t)); out.sort()
_parse_times(times_csv) ==
    SortTuples([i \in 1..Len(times_csv) |->
                  [at |-> HHMM(times_csv[i]), slot |-> times_csv[i]]])

\* the values of RUN_TIMES the model draws from
RunTimesOptions ==
    { <<"18:00", "09:00">> }

schedule == _parse_times(run_times)

\* _today_key: dt.strftime("%Y-%m-%d")
_today_key(dt) == Day(dt)

\* now.replace(hour=hh, minute=mm, second=0, microsecond=0)
Replace(dt, at) == Day(dt) * DayLen + at

-----------------------------------------------------------------------------
(* main.py: persisted scheduler state *)

EmptyState == [k \in {} |-> 0]

MissingFile == [kind |-> "missing", data |-> EmptyState]
CorruptFile == [kind |-> "corrupt", data |-> EmptyState]
JsonFile(st) == [kind |-> "json", data |-> st]

\* a call that returns v / a call that raises
Ok(v) == [ok |-> TRUE, val |-> v]
Raise == [ok |-> FALSE, val |-> None]

\* _load_state, with the exception handling it contains
_load_state_uncaught(f) == IF f.kind = "json" THEN Ok(f.data) ELSE Raise

_load_state(f) ==
    IF f.kind = "json" THEN Ok(f.data)   \* json.load(f)
    ELSE Ok(EmptyState)                  \* except Exception: return {}

\* what the disk can do to a save
SaveOutcomes == {"written", "open_failed", "dump_failed"}

\* _save_state: <<returned or raised, file afterwards>>
_save_state(st, f, outcome) ==
    CASE outcome = "written"     -> <<Ok(None), JsonFile(st)>>
      [] outcome = "open_failed" -> <<Ok(None), f>>           \* except: print
      [] outcome = "dump_failed" -> <<Ok(None), CorruptFile>> \* opened "w": truncated

\* state.get("ran", {})
RanOf(st) == IF "ran" \in DOMAIN st THEN st["ran"] ELSE EmptyState

\* set(ran.get(today, []))
RanToday(st, today) ==
    IF today \in DOMAIN RanOf(st) THEN Range(RanOf(st)[today]) ELSE {}

\* the schedule entries that are due at `dt` and not in the ledger of its date
DueUnrun(dt, sch, st) ==
    {i \in 1..Len(sch) :
        /\ dt >= Replace(dt, sch[i].at)
        /\ sch[i].slot \notin RanToday(st, _today_key(dt))}

\* a variant that only fires inside a window after the slot time
_should_run_now_window(dt, sch, st) ==
    LET due == {i \in DueUnrun(dt, sch, st) : dt - Replace(dt, sch[i].at) <= 1}
    IN IF due = {} THEN None
       ELSE sch[CHOOSE i \in due : \A j \in due : i <= j].slot

\* a variant that takes the latest due slot instead of the earliest
_should_run_now_latest(dt, sch, st) ==
    LET due == DueUnrun(dt, sch, st)
    IN IF due = {} THEN None
       ELSE sch[CHOOSE i \in due : \A j \in due : i >= j].slot

\* _should_run_now: the first schedule entry that is due and not run today
_should_run_now(dt, sch, st) ==
    LET due == DueUnrun(dt, sch, st)
    IN IF due = {} THEN None
       ELSE sch[CHOOSE i \in due : \A j \in due : i <= j].slot

\* _mark_ran
_mark_ran(dt, slot, st) ==
    LET today == _today_key(dt)
        ran == RanOf(st)
        lst == IF today \in DOMAIN ran THEN ran[today] ELSE <<>>
        lst2 == IF slot \in Range(lst) THEN lst ELSE Append(lst, slot)
        ran2 == [d \in DOMAIN ran \cup {today} |-> IF d = today THEN lst2 ELSE ran[d]]
    IN [k \in DOMAIN st \cup {"ran"} |-> IF k = "ran" THEN ran2 ELSE st[k]]

\* A clock reading with its sub-second part is [sec, sub]: sec seconds and
\* sub / SubSteps of a second.  Whole(dt) is a datetime with microsecond = 0.
Whole(dt) == [sec |-> dt, sub |-> 0]

\* the position of a reading on the time line (what <, > and - of datetimes use)
Ticks(n) == n.sec * SubSteps + n.sub

\* int(td.total_seconds()) of a difference given in ticks: truncation towards 0
IntSeconds(ticks) ==
    IF ticks >= 0 THEN ticks \div SubSteps ELSE -((-ticks) \div SubSteps)

\* a variant that also accepts a candidate equal to now
_next_run_not_strict(n, sch) ==
    LET later == {i \in 1..Len(sch) :
                     Ticks(Whole(Replace(n.sec, sch[i].at))) >= Ticks(n)}
    IN IF later # {}
       THEN LET i == CHOOSE i \in later : \A j \in later : i <= j
            IN <<Replace(n.sec, sch[i].at), sch[i].slot>>
       ELSE <<Replace(n.sec + DayLen, sch[1].at), sch[1].slot>>

\* _next_run: <<run_dt, slot>>, run_dt in whole seconds
_next_run(n, sch) ==
    LET later == {i \in 1..Len(sch) :
                     Ticks(Whole(Replace(n.sec, sch[i].at))) > Ticks(n)}
    IN IF later # {}
       THEN LET i == CHOOSE i \in later : \A j \in later : i <= j
            IN <<Replace(n.sec, sch[i].at), sch[i].slot>>
       ELSE <<Replace(n.sec + DayLen, sch[1].at), sch[1].slot>>

\* sleep_s = max(1, int((next_dt - now).total_seconds()))
SleepSeconds(n, sch) ==
    Max(1, IntSeconds(Ticks(Whole(_next_run(n, sch)[1])) - Ticks(n)))

-----------------------------------------------------------------------------
(* state_store.py *)

\* load_state: json.load, {} when the file is missing or does not parse
load_state(f) == IF f.kind = "json" THEN f.data ELSE EmptyState

\* save_state: write path.tmp, then os.replace(tmp_path, path)
save_state(st) == JsonFile(st)

\* state.get("items", {})
ItemsOf(st) == IF "items" \in DOMAIN st THEN st["items"] ELSE EmptyState

\* int(v.get("last_seen", 0) or 0)
LastSeen(v) == IF "last_seen" \in DOMAIN v THEN v["last_seen"] ELSE 0

\* a prune that compares with < instead of <=
prune_old_strict(st, ttl_seconds, ts) ==
    LET its == ItemsOf(st)
        keep == {k \in DOMAIN its : ts - LastSeen(its[k]) < ttl_seconds}
        new_items == [k \in keep |-> its[k]]
    IN [x \in DOMAIN st \cup {"items"} |-> IF x = "items" THEN new_items ELSE st[x]]

\* a prune with the comparison the wrong way round
prune_old_flipped(st, ttl_seconds, ts) ==
    LET its == ItemsOf(st)
        keep == {k \in DOMAIN its : ts - LastSeen(its[k]) > ttl_seconds}
        new_items == [k \in keep |-> its[k]]
    IN [x \in DOMAIN st \cup {"items"} |-> IF x = "items" THEN new_items ELSE st[x]]

\* prune_old(state, ttl_seconds), with ts = now_ts()
prune_old(st, ttl_seconds, ts) ==
    LET its == ItemsOf(st)
        keep == {k \in DOMAIN its : ts - LastSeen(its[k]) <= ttl_seconds}
        new_items == [k \in keep |-> its[k]]
    IN [x \in DOMAIN st \cup {"items"} |-> IF x = "items" THEN new_items ELSE st[x]]

-----------------------------------------------------------------------------
(* Alert State Tracker (build_items of summarizer, imported by main.py) *)

\* configuration of the tracker
MIN_SCORE_TO_NOTIFY == 45
RE_ALERT_INTERVAL == 12 * Hour
STATE_TTL == DayLen

\* the grouping keys a fetch can hold, and the score the classifier gives each
Keys == {"fatura"}
KeyScore(k) == IF k = "fatura" THEN 95 ELSE 15

\* what list_recent_emails can return
FetchResults ==
    {[none |-> TRUE, batch |-> {}]} \cup {[none |-> FALSE, batch |-> b] : b \in SUBSET Keys}

\* emails = list_recent_emails(...) or []
OrEmpty(r) == IF r.none THEN {} ELSE r.batch

HasAlerted(its, k) == k \in DOMAIN its /\ "last_alerted" \in DOMAIN its[k]

\* step 3 of the tracker: no last_alerted yet, or the interval has passed
Eligible(its, k, ts) ==
    /\ KeyScore(k) >= MIN_SCORE_TO_NOTIFY
    /\ \/ ~HasAlerted(its, k)
       \/ ts - its[k]["last_alerted"] >= RE_ALERT_INTERVAL

\* step 1: last_seen = now for every key of the batch
Touch(its, batch, ts) ==
    [k \in DOMAIN its \cup batch |->
        IF k \in batch
        THEN IF HasAlerted(its, k)
             THEN [f \in {"last_seen", "last_alerted"} |->
                     IF f = "last_seen" THEN ts ELSE its[k]["last_alerted"]]
             ELSE [f \in {"last_seen"} |-> ts]
        ELSE its[k]]

\* step 4: last_alerted = now for every key that was sent
MarkAlerted(its, sent, ts) ==
    [k \in DOMAIN its |->
        IF k \in sent
        THEN [f \in {"last_seen", "last_alerted"} |->
                IF f = "last_seen" THEN LastSeen(its[k]) ELSE ts]
        ELSE its[k]]

WithItems(st, its) ==
    [x \in DOMAIN st \cup {"items"} |-> IF x = "items" THEN its ELSE st[x]]

\* build_items: <<notify-set, alert state afterwards>>
build_items(batch, f, ts) ==
    LET st1 == prune_old(load_state(f), STATE_TTL, ts)
        its == Touch(ItemsOf(st1), batch, ts)
        out == {k \in batch : Eligible(ItemsOf(st1), k, ts)}
    IN <<out, save_state(WithItems(st1, its))>>

-----------------------------------------------------------------------------
(* main.py: run_once and main_loop *)

SlotNames == {"09:00", "9:00", "12:00", "18:00"}
Pairs == (0..Day(Horizon)) \X SlotNames

\* history of one iteration: what the fetch returned, whether run_once raised,
\* the messages sent, how the save ended, and the iteration's number since the
\* process started (0 before the first, 2 for every one after the first)
NewCycle == [fetched |-> "-", raised |-> FALSE, sent |-> 0, save |-> "-", iter |-> 0]

\* an exception inside run_once that nothing catches ends the process
ExceptTargetUncaught == "crashed"

\* try: run_once(...) except Exception: print(...) finally: _mark_ran, _save_state
ExceptTarget == "mark"

\* run_once never sends when there are no items
SendsWhenEmptyNever(hb) == FALSE

\* if not items: if HEARTBEAT_WHEN_EMPTY: send_telegram_message(msg)
SendsWhenEmpty(hb) == hb

NoCall == [fn |-> "-", arg |-> None]
NoRet == [done |-> FALSE, val |-> None]

Init ==
    /\ clk \in BootTimes
    /\ pc = "boot"
    /\ now = 0
    /\ due_slot = None
    /\ state = EmptyState
    /\ file = MissingFile
    /\ run_times \in RunTimesOptions
    /\ heartbeat \in BOOLEAN
    /\ emails = {}
    /\ items = {}
    /\ store = MissingFile
    /\ restarts = 0
    /\ starts = [p \in Pairs |-> 0]
    /\ missed = {}
    /\ cyc = NewCycle
    /\ alerted_at = [k \in Keys |-> -1]
    /\ boot_file = "-"
    /\ call = NoCall
    /\ ret = NoRet

\* main_loop up to the while: state = _load_state()
Boot ==
    /\ pc = "boot"
    /\ LET r == _load_state(file)
       IN /\ pc' = IF r.ok THEN "eval" ELSE "crashed"
          /\ state' = IF r.ok THEN r.val ELSE state
    /\ boot_file' = file.kind
    /\ cyc' = NewCycle
    /\ UNCHANGED <<clk, now, due_slot, file, run_times, heartbeat, emails, items,
                   store, restarts, starts, missed, alerted_at, call, ret>>

\* now = datetime.now(tz); due_slot = _should_run_now(now, schedule, state)
Evaluate ==
    /\ pc = "eval"
    /\ now' = clk
    /\ LET s == _should_run_now(clk, schedule, state)
       IN /\ due_slot' = s
          /\ IF s # None
             THEN /\ pc' = "fetch"
                  /\ starts' = [starts EXCEPT ![<<_today_key(clk), s>>] = @ + 1]
             ELSE /\ pc' = "sleep"
                  /\ starts' = starts
    /\ missed' = missed \cup
          {<<_today_key(clk), schedule[i].slot>> : i \in DueUnrun(clk, schedule, state)}
    /\ cyc' = [NewCycle EXCEPT !.iter = Min(cyc.iter + 1, 2)]
    /\ UNCHANGED <<clk, state, file, run_times, heartbeat, emails, items, store,
                   restarts, alerted_at, boot_file, call, ret>>

\* emails = list_recent_emails(max_results=MAX_RESULTS) or []
Fetch ==
    /\ pc = "fetch"
    /\ \/ \E r \in FetchResults :
             /\ emails' = OrEmpty(r)
             /\ cyc' = [cyc EXCEPT !.fetched =
                           IF r.none THEN "none"
                           ELSE IF r.batch = {} THEN "empty" ELSE "some"]
             /\ pc' = "build"
       \/ /\ emails' = emails
          /\ cyc' = [cyc EXCEPT !.fetched = "raised", !.raised = TRUE]
          /\ pc' = ExceptTarget
    /\ UNCHANGED <<clk, now, due_slot, state, file, run_times, heartbeat, items,
                   store, restarts, starts, missed, alerted_at, boot_file, call, ret>>

\* items = build_items(emails)
Build ==
    /\ pc = "build"
    /\ LET r == build_items(emails, store, clk)
       IN /\ items' = r[1]
          /\ store' = r[2]
    /\ pc' = "send"
    /\ UNCHANGED <<clk, now, due_slot, state, file, run_times, heartbeat, emails,
                   restarts, starts, missed, cyc, alerted_at, boot_file, call, ret>>

\* the rest of run_once: heartbeat or summary, then send_telegram_message
Send ==
    /\ pc = "send"
    /\ \/ \* nothing to send and no heartbeat: return
          /\ items = {} /\ ~SendsWhenEmpty(heartbeat)
          /\ pc' = "mark"
          /\ UNCHANGED <<store, cyc, alerted_at>>
       \/ \* build_summary_from_items raises
          /\ items # {}
          /\ pc' = ExceptTarget
          /\ cyc' = [cyc EXCEPT !.raised = TRUE]
          /\ UNCHANGED <<store, alerted_at>>
       \/ \* send_telegram_message raises
          /\ items # {} \/ SendsWhenEmpty(heartbeat)
          /\ pc' = ExceptTarget
          /\ cyc' = [cyc EXCEPT !.raised = TRUE]
          /\ UNCHANGED <<store, alerted_at>>
       \/ \* send_telegram_message returns
          /\ items # {} \/ SendsWhenEmpty(heartbeat)
          /\ pc' = "mark"
          /\ cyc' = [cyc EXCEPT !.sent = @ + 1]
          /\ store' = save_state(WithItems(load_state(store),
                          MarkAlerted(ItemsOf(load_state(store)), items, clk)))
          /\ alerted_at' = [k \in Keys |-> IF k \in items THEN clk ELSE alerted_at[k]]
    /\ UNCHANGED <<clk, now, due_slot, state, file, run_times, heartbeat, emails,
                   items, restarts, starts, missed, boot_file, call, ret>>

\* finally: _mark_ran(now, due_slot, state)
Mark ==
    /\ pc = "mark"
    /\ state' = _mark_ran(now, due_slot, state)
    /\ pc' = "save"
    /\ emails' = {}
    /\ items' = {}
    /\ UNCHANGED <<clk, now, due_slot, file, run_times, heartbeat, store, restarts,
                   starts, missed, cyc, alerted_at, boot_file, call, ret>>

\* finally: _save_state(state)
Save ==
    /\ pc = "save"
    /\ \E outcome \in SaveOutcomes :
          LET r == _save_state(state, file, outcome)
          IN /\ file' = r[2]
             /\ pc' = IF r[1].ok THEN "postsleep" ELSE "crashed"
             /\ cyc' = [cyc EXCEPT !.save = outcome]
    /\ UNCHANGED <<clk, now, due_slot, state, run_times, heartbeat, emails, items,
                   store, restarts, starts, missed, alerted_at, boot_file, call, ret>>

\* time.sleep(5); continue
PostSleep ==
    /\ pc = "postsleep"
    /\ clk + PostRunSleep < Horizon
    /\ clk' = clk + PostRunSleep
    /\ pc' = "eval"
    /\ UNCHANGED <<now, due_slot, state, file, run_times, heartbeat, emails, items,
                   store, restarts, starts, missed, cyc, alerted_at, boot_file,
                   call, ret>>

\* next_dt, next_slot = _next_run(now, schedule); time.sleep(sleep_s)
\* (the loop's clock is read on whole seconds)
Sleep ==
    /\ pc = "sleep"
    /\ clk + SleepSeconds(Whole(now), schedule) < Horizon
    /\ clk' = clk + SleepSeconds(Whole(now), schedule)
    /\ pc' = "eval"
    /\ UNCHANGED <<now, due_slot, state, file, run_times, heartbeat, emails, items,
                   store, restarts, starts, missed, cyc, alerted_at, boot_file,
                   call, ret>>

\* the process is killed at any point and started again by its supervisor;
\* a kill inside _save_state leaves the file it opened with "w" truncated
Kill ==
    /\ restarts < MaxRestarts
    /\ restarts' = restarts + 1
    /\ \E d \in DownTimes :
          /\ clk + d < Horizon
          /\ clk' = clk + d
    /\ pc' = "boot"
    /\ state' = EmptyState
    /\ now' = 0
    /\ due_slot' = None
    /\ emails' = {}
    /\ items' = {}
    /\ \/ file' = file
       \/ pc = "save" /\ file' = CorruptFile
    /\ cyc' = NewCycle
    /\ UNCHANGED <<run_times, heartbeat, store, starts, missed, alerted_at,
                   boot_file, call, ret>>

Next ==
    \/ Boot
    \/ Evaluate
    \/ Fetch
    \/ Build
    \/ Send
    \/ Mark
    \/ Save
    \/ PostSleep
    \/ Sleep
    \/ Kill

Spec == Init /\ [][Next]_vars

-----------------------------------------------------------------------------
(* summarizer.py: classify_email *)

\* An email's text (subject, sender and snippet joined into `blob`) is the set
\* of the words it holds; a pattern list matches when one of its words is there.
IGNORE_SUBJECT_PATTERNS == {"render", "incident"}
LOW_PRIORITY_PATTERNS == {"promo", "newsletter"}
HIGH_PRIORITY_KEYWORDS == {"fatura", "escola"}
MEDIUM_PRIORITY_KEYWORDS == {"reserva"}
DUE_HINTS == {"vence", "prazo"}
DateToken == "05/02"
Words == {"render", "promo", "fatura", "reserva", "vence", DateToken, "ola"}

\* _matches_any / _contains_any
_matches_any(blob, patterns) == blob \cap patterns # {}

\* _extract_first_date, then _days_until: None, or the days from today to the date
DaysOptions == {-3, 0, 1, 2, 3, 7, 8}
_extract_first_date(blob, days) == IF DateToken \in blob THEN <<days>> ELSE <<>>

\* what _openai_chat can return: nothing, text that is not JSON, or a JSON object
LlmReplies ==
    {[kind |-> "none", priority |-> ""], [kind |-> "text", priority |-> ""]} \cup
    {[kind |-> "json", priority |-> p] :
        p \in {"ALTA", "MEDIA", "BAIXA", "IGNORAR", " alta ", "URGENTE", ""}}

\* str(data.get("priority", "")).upper().strip()
UpperStrip(p) == IF p = " alta " THEN "ALTA" ELSE p

Classified(priority, score, due) == [priority |-> priority, score |-> score, due_date |-> due]

\* a score table that follows the model's label for ALTA only loosely
score_map_loose(pr) ==
    CASE pr = "IGNORAR" -> 0 [] pr = "BAIXA" -> 25 [] pr = "MEDIA" -> 55 [] pr = "ALTA" -> 70

\* score_map = {"IGNORAR": 0, "BAIXA": 25, "MEDIA": 55, "ALTA": 85}
score_map(pr) ==
    CASE pr = "IGNORAR" -> 0 [] pr = "BAIXA" -> 25 [] pr = "MEDIA" -> 55 [] pr = "ALTA" -> 85

\* _classify_with_llm: <<>> for None, else <<ClassifiedEmail>>
_classify_with_llm(reply) ==
    IF reply.kind # "json" THEN <<>>           \* not raw, or json.loads raises
    ELSE LET pr == UpperStrip(reply.priority)
         IN IF pr \notin {"ALTA", "MEDIA", "BAIXA", "IGNORAR"} THEN <<>>
            ELSE <<Classified(pr, score_map(pr), <<>>)>>

\* the score of the high-priority rule, from the days until the due date
DueScore(due) ==
    IF due = <<>> THEN 85
    ELSE IF due[1] <= 0 THEN 100
    ELSE IF due[1] <= 2 THEN 95
    ELSE IF due[1] <= 7 THEN 90
    ELSE 85

\* classify_email; email = [blob, days, llm]
classify_email(email) ==
    LET blob == email.blob
        due_date == _extract_first_date(blob, email.days)
        has_due_hint == blob \cap DUE_HINTS # {}
        has_high_kw == _matches_any(blob, HIGH_PRIORITY_KEYWORDS)
        llm == _classify_with_llm(email.llm)
    IN IF _matches_any(blob, IGNORE_SUBJECT_PATTERNS) THEN Classified("IGNORAR", 0, <<>>)
       ELSE IF _matches_any(blob, LOW_PRIORITY_PATTERNS) THEN Classified("BAIXA", 15, <<>>)
       ELSE IF has_high_kw \/ (has_due_hint /\ due_date # <<>>)
            THEN Classified("ALTA", Min(100, DueScore(due_date)), due_date)
       ELSE IF _matches_any(blob, MEDIUM_PRIORITY_KEYWORDS) THEN Classified("MEDIA", 55, <<>>)
       ELSE IF llm # <<>> THEN llm[1]
       ELSE Classified("BAIXA", 25, <<>>)

EmailInputs == [blob : SUBSET Words, days : DaysOptions, llm : LlmReplies]

InitClassify ==
    /\ clk = 0 /\ pc = "call" /\ now = 0 /\ due_slot = None
    /\ state = EmptyState /\ file = MissingFile
    /\ run_times \in RunTimesOptions /\ heartbeat = FALSE
    /\ emails = {} /\ items = {} /\ store = MissingFile /\ restarts = 0
    /\ starts = [p \in Pairs |-> 0] /\ missed = {} /\ cyc = NewCycle
    /\ alerted_at = [k \in Keys |-> -1] /\ boot_file = "-"
    /\ \E e \in EmailInputs : call = [fn |-> "classify_email", arg |-> e]
    /\ ret = NoRet

ClassifyCall ==
    /\ call.fn = "classify_email"
    /\ ~ret.done
    /\ ret' = [done |-> TRUE, val |-> classify_email(call.arg)]
    /\ UNCHANGED <<loopvars, call>>

NextClassify == ClassifyCall

SpecClassify == InitClassify /\ [][NextClassify]_vars

-----------------------------------------------------------------------------
(* summarizer.py: group_by_subject *)

MaxSubjLen == 4      \* longest subject of the model
BatchLen == 2        \* emails of one batch

\* a subject is a sequence of characters of this alphabet
Chars == {"P", " ", "1", "2"}
Digits == {"1", "2"}

Lower(c) == IF c = "P" THEN "p" ELSE c
IsSpace(c) == c = " "

RECURSIVE LStrip(_)
LStrip(s) == IF s # <<>> /\ IsSpace(Head(s)) THEN LStrip(Tail(s)) ELSE s

RECURSIVE RStrip(_)
RStrip(s) ==
    IF s # <<>> /\ IsSpace(s[Len(s)]) THEN RStrip(SubSeq(s, 1, Len(s) - 1)) ELSE s

\* _norm: (s or "").strip().lower()
_norm(s) == LET t == RStrip(LStrip(s)) IN [i \in 1..Len(t) |-> Lower(t[i])]

\* re.sub(r"\s+", " ", s)
RECURSIVE CollapseSpaces(_)
CollapseSpaces(s) ==
    IF s = <<>> THEN <<>>
    ELSE IF IsSpace(Head(s)) THEN <<" ">> \o CollapseSpaces(LStrip(s))
    ELSE <<Head(s)>> \o CollapseSpaces(Tail(s))

\* key = re.sub(r"\s+", " ", _norm(e.subject))
GroupKey(subject) == CollapseSpaces(_norm(subject))

\* one step of the loop of group_by_subject
GroupStep(grouped, e) ==
    LET key == GroupKey(e.subject)
    IN IF key \in DOMAIN grouped
       THEN [k \in DOMAIN grouped |->
               IF k # key THEN grouped[k]
               ELSE IF e.score > grouped[k].rep.score
                    THEN [rep |-> e, n |-> grouped[k].n + 1]
                    ELSE [rep |-> grouped[k].rep, n |-> grouped[k].n + 1]]
       ELSE [k \in DOMAIN grouped \cup {key} |->
               IF k = key THEN [rep |-> e, n |-> 1] ELSE grouped[k]]

RECURSIVE GroupFrom(_, _)
GroupFrom(grouped, es) ==
    IF es = <<>> THEN grouped ELSE GroupFrom(GroupStep(grouped, Head(es)), Tail(es))

\* group_by_subject: key -> (representative, count)
group_by_subject(es) == GroupFrom([k \in {} |-> 0], es)

Subjects == UNION {[1..n -> Chars] : n \in 1..MaxSubjLen}
Batches == [1..BatchLen -> [subject : Subjects, score : {15, 85}]]

InitGroup ==
    /\ clk = 0 /\ pc = "call" /\ now = 0 /\ due_slot = None
    /\ state = EmptyState /\ file = MissingFile
    /\ run_times \in RunTimesOptions /\ heartbeat = FALSE
    /\ emails = {} /\ items = {} /\ store = MissingFile /\ restarts = 0
    /\ starts = [p \in Pairs |-> 0] /\ missed = {} /\ cyc = NewCycle
    /\ alerted_at = [k \in Keys |-> -1] /\ boot_file = "-"
    /\ \E b \in Batches : call = [fn |-> "group_by_subject", arg |-> b]
    /\ ret = NoRet

GroupCall ==
    /\ call.fn = "group_by_subject"
    /\ ~ret.done
    /\ ret' = [done |-> TRUE, val |-> group_by_subject(call.arg)]
    /\ UNCHANGED <<loopvars, call>>

NextGroup == GroupCall

SpecGroup == InitGroup /\ [][NextGroup]_vars

-----------------------------------------------------------------------------
(* state_store.py: prune_old as a function *)

Days(n) == n * DayLen

\* now_ts() of the checks, and the values of last_seen around the TTL
PruneNow == Days(40)
TtlOptions == {Days(14), Days(1)}
LastSeenOptions(ttl) ==
    {PruneNow - Days(20), PruneNow - ttl - 1, PruneNow - ttl, PruneNow - ttl + 1, PruneNow}

\* an alert record: last_seen is there or not, last_alerted is there or not
AlertRecords(ttl) ==
    {[f \in {"last_alerted"} |-> PruneNow - Days(30)]} \cup
    {[f \in {"last_seen"} |-> t] : t \in LastSeenOptions(ttl)} \cup
    {[f \in {"last_seen", "last_alerted"} |-> t] : t \in LastSeenOptions(ttl)}

PruneKeys == {"k1", "k2"}

ItemMaps(ttl) == UNION {[ks -> AlertRecords(ttl)] : ks \in SUBSET PruneKeys}

PruneStates(ttl) ==
    {EmptyState, [x \in {"ran"} |-> [d \in {0} |-> <<"09:00">>]]} \cup
    {[x \in {"items"} |-> m] : m \in ItemMaps(ttl)} \cup
    {[x \in {"items", "ran"} |-> IF x = "items" THEN m ELSE [d \in {0} |-> <<"09:00">>]] :
        m \in ItemMaps(ttl)}

InitPrune ==
    /\ clk = PruneNow /\ pc = "call" /\ now = 0 /\ due_slot = None
    /\ state = EmptyState /\ file = MissingFile
    /\ run_times \in RunTimesOptions /\ heartbeat = FALSE
    /\ emails = {} /\ items = {} /\ store = MissingFile /\ restarts = 0
    /\ starts = [p \in Pairs |-> 0] /\ missed = {} /\ cyc = NewCycle
    /\ alerted_at = [k \in Keys |-> -1] /\ boot_file = "-"
    /\ \E ttl \in TtlOptions : \E st \in PruneStates(ttl) :
          call = [fn |-> "prune_old", arg |-> [state |-> st, ttl_seconds |-> ttl]]
    /\ ret = NoRet

PruneCall ==
    /\ call.fn = "prune_old"
    /\ ~ret.done
    /\ ret' = [done |-> TRUE,
               val |-> prune_old(call.arg.state, call.arg.ttl_seconds, clk)]
    /\ UNCHANGED <<loopvars, call>>

NextPrune == PruneCall

SpecPrune == InitPrune /\ [][NextPrune]_vars

-----------------------------------------------------------------------------
(* main.py: _next_run and the sleep of main_loop as a function of `now` *)

\* the values of RUN_TIMES of these checks
SleepRunTimes ==
    { <<"18:00", "09:00">>, <<"09:00", "12:00", "18:00">>, <<"00:00", "12:00">> }

\* the seconds of day 0 at which the clock is read: around every slot time,
\* around midnight and in between
ClockSeconds ==
    UNION {{t - 2, t - 1, t, t + 1} : t \in {9 * Hour, 12 * Hour, 18 * Hour}}
        \cup {0, 1, 10 * Hour + 1800, DayLen - 2, DayLen - 1}

SleepNows == {[sec |-> t, sub |-> u] : t \in ClockSeconds, u \in 0..(SubSteps - 1)}

\* the ledger the loop holds when it finds no slot due at n: the slots of
\* today that are due, in schedule order
LedgerAt(n, sch) ==
    LET due == SelectSeq(sch, LAMBDA e : n.sec >= Replace(n.sec, e.at))
    IN IF due = <<>> THEN EmptyState
       ELSE [x \in {"ran"} |->
               [d \in {_today_key(n.sec)} |-> [i \in 1..Len(due) |-> due[i].slot]]]

InitSleep ==
    /\ clk = 0 /\ pc = "call" /\ now = 0 /\ due_slot = None
    /\ state = EmptyState /\ file = MissingFile
    /\ run_times \in SleepRunTimes /\ heartbeat = FALSE
    /\ emails = {} /\ items = {} /\ store = MissingFile /\ restarts = 0
    /\ starts = [p \in Pairs |-> 0] /\ missed = {} /\ cyc = NewCycle
    /\ alerted_at = [k \in Keys |-> -1] /\ boot_file = "-"
    /\ \E n \in SleepNows :
          call = [fn |-> "_next_run",
                  arg |-> [now |-> n, state |-> LedgerAt(n, schedule)]]
    /\ ret = NoRet

\* main_loop with no slot due: _next_run, sleep_s
SleepCall ==
    /\ call.fn = "_next_run"
    /\ ~ret.done
    /\ _should_run_now(call.arg.now.sec, schedule, call.arg.state) = None
    /\ LET r == _next_run(call.arg.now, schedule)
       IN ret' = [done |-> TRUE,
                  val |-> [next_dt |-> r[1], next_slot |-> r[2],
                           sleep_s |-> SleepSeconds(call.arg.now, schedule)]]
    /\ UNCHANGED <<loopvars, call>>

NextSleep == SleepCall

SpecSleep == InitSleep /\ [][NextSleep]_vars

-----------------------------------------------------------------------------
(* Properties of the scheduler loop (checked under Spec) *)

InRunOnce == pc \in {"fetch", "build", "send"}

\* the slots whose time of day has passed at dt and that the ledger of dt's
\* date does not hold
MissedToday(dt, st) ==
    {e \in Range(schedule) : e.at <= Tod(dt) /\ e.slot \notin RanToday(st, Day(dt))}

Recorded(dt, slot, st) == slot \in RanToday(st, Day(dt))

\* C1: run_once is started at most once for every (date, slot), whatever the
\* kills, restarts and failed saves.
C1_AtMostOncePerSlot == \A p \in Pairs : starts[p] <= 1

C3_LedgerOnlyAfterSend ==
    (pc = "save" /\ Recorded(now, due_slot, state)) => cyc.sent >= 1

\* C4 as stated: after an empty (or None) fetch no error was raised, the slot is
\* in the ledger and exactly one heartbeat was sent if HEARTBEAT_WHEN_EMPTY,
\* none otherwise.
C4_EmptyFetchAsStated ==
    (pc = "postsleep" /\ cyc.fetched \in {"empty", "none"}) =>
        /\ ~cyc.raised
        /\ Recorded(now, due_slot, state)
        /\ cyc.sent = IF heartbeat THEN 1 ELSE 0

\* C4 amended: after an empty (or None) fetch the slot is in the ledger, the
\* worker is still running, nothing raises unless the heartbeat send does, and
\* the messages sent are one heartbeat if HEARTBEAT_WHEN_EMPTY is set and its
\* send returned, none otherwise.
C4_EmptyFetch ==
    (pc = "postsleep" /\ cyc.fetched \in {"empty", "none"}) =>
        /\ Recorded(now, due_slot, state)
        /\ cyc.raised => heartbeat
        /\ cyc.sent = IF heartbeat /\ ~cyc.raised THEN 1 ELSE 0

\* C4 witness: an empty fetch with the heartbeat sent
C4_Witness ==
    /\ pc = "postsleep"
    /\ cyc.fetched = "empty"
    /\ heartbeat
    /\ cyc.sent = 1

\* C5: a collaborator's failure never ends the worker: after it no message is
\* sent in that iteration and the loop goes on to the next evaluation.
C5_FailureContained ==
    /\ pc # "crashed"
    /\ cyc.raised =>
          /\ cyc.sent = 0
          /\ pc \in {"mark", "save", "postsleep", "eval"}

\* C5 witness: the fetch raised and the loop is back at its next evaluation
C5_Witness ==
    /\ pc = "eval"
    /\ cyc.fetched = "raised"
    /\ cyc.raised

C9_StateFailuresContained ==
    /\ pc # "crashed"
    /\ (boot_file \in {"missing", "corrupt"} /\ cyc.iter = 0 /\ pc = "eval") =>
          state = EmptyState
    /\ (boot_file \in {"missing", "corrupt"} /\ cyc.iter = 1) =>
          /\ pc = "sleep" => \A e \in Range(schedule) : e.at > Tod(now)
          /\ InRunOnce =>
                \E e \in Range(schedule) :
                   /\ e.slot = due_slot
                   /\ e.at <= Tod(now)
                   /\ \A o \in Range(schedule) : o.at <= Tod(now) => e.at <= o.at
    /\ cyc.save \in {"open_failed", "dump_failed"} => pc \in {"postsleep", "eval"}

\* C9 witness: after a save that failed and a kill, the corrupt file loads as
\* the empty state and a slot already run today is run again
C9_Witness ==
    /\ pc = "fetch"
    /\ boot_file = "corrupt"
    /\ cyc.iter = 1
    /\ starts[<<Day(now), due_slot>>] = 2

\* C11: every save of the scheduler state is an atomic replace: when the process
\* is killed during a save, the state file it finds at the next start is the
\* complete previous content or the complete new state, never a partial one.
C11_SaveIsAtomic ==
    [][(pc = "save" /\ pc' = "boot") => file' \in {file, JsonFile(state)}]_vars


\* the ledger of a date, [] when the date has none
LedgerOf(st, d) == IF d \in DOMAIN RanOf(st) THEN RanOf(st)[d] ELSE <<>>

\* l is the first Len(l) slots of the schedule sch
IsSchedulePrefix(l, sch) ==
    /\ Len(l) <= Len(sch)
    /\ \A i \in 1..Len(l) : l[i] = sch[i].slot

\* every date's ledger is a prefix of the schedule, which is sorted by time
LedgerIsPrefix ==
    LET sch == schedule
        ran == RanOf(state)
    IN /\ \A i \in 1..(Len(sch) - 1) : sch[i].at < sch[i + 1].at
       /\ \A d \in DOMAIN ran : IsSchedulePrefix(ran[d], sch)

\* what one step of the running process does to the ledger: the slot run_once
\* is started for is the one after today's ledger, only today's ledger changes,
\* and it grows by that one slot
LedgerStep ==
    /\ (pc = "eval" /\ pc' = "fetch") =>
          LET n == Len(LedgerOf(state, Day(clk)))
              sch == schedule
          IN n < Len(sch) /\ due_slot' = sch[n + 1].slot
    /\ (pc # "boot" /\ pc' # "boot") =>
          /\ \A d \in DOMAIN RanOf(state) \cup DOMAIN RanOf(state') :
                d # Day(clk) => LedgerOf(state', d) = LedgerOf(state, d)
          /\ \/ LedgerOf(state', Day(clk)) = LedgerOf(state, Day(clk))
             \/ /\ pc = "mark"
                /\ LedgerOf(state', Day(clk)) =
                      Append(LedgerOf(state, Day(clk)), due_slot)

\* C14: from an empty ledger and a schedule of distinct slot times, the ledger
\* of every date holds no duplicate and is a prefix of the time-sorted schedule:
\* the slots of a day are run and recorded in ascending time order, one per
\* iteration, and the ledger of an earlier date is never added to.
C14_LedgerPrefixInOrder == []LedgerIsPrefix /\ [][LedgerStep]_vars

\* C14 witness: day 0 ended with 18:00 left unrun, and on day 1 both slots were
\* run and recorded in order
C14_Witness ==
    /\ pc = "save"
    /\ Day(clk) = 1
    /\ LedgerOf(state, 0) = <<"09:00">>
    /\ LedgerOf(state, 1) = <<"09:00", "18:00">>

-----------------------------------------------------------------------------
(* Properties of classify_email (checked under SpecClassify) *)

\* C7: the priority of every classified email is the one the thresholds give
\* its score, and the score is in 0..100.
C7_BucketFollowsScore ==
    (call.fn = "classify_email" /\ ret.done) =>
        /\ ret.val.score \in 0..100
        /\ ret.val.priority \in {"ALTA", "MEDIA", "BAIXA", "IGNORAR"}
        /\ ret.val.priority = "ALTA" => ret.val.score >= 75
        /\ ret.val.priority = "MEDIA" => (45 <= ret.val.score /\ ret.val.score < 75)
        /\ ret.val.priority \in {"BAIXA", "IGNORAR"} => ret.val.score < 45

\* C7 witness: an email no rule matches, classified ALTA by the delegated step
C7_Witness ==
    /\ call.fn = "classify_email"
    /\ ret.done
    /\ call.arg.blob = {"ola"}
    /\ call.arg.llm.kind = "json"
    /\ ret.val.priority = "ALTA"

\* C12: the rules are applied in the order ignore pattern, high-intent keyword,
\* promotional pattern, default: an email matching an ignore pattern gets a
\* score of at most 20 and IGNORAR or BAIXA whatever else it matches, and an
\* email matching a high-intent keyword and a promotional pattern (and no
\* ignore pattern) is ALTA with a score in 80..100.
C12_RuleOrder ==
    (call.fn = "classify_email" /\ ret.done) =>
        LET blob == call.arg.blob
        IN /\ _matches_any(blob, IGNORE_SUBJECT_PATTERNS) =>
                 /\ ret.val.score <= 20
                 /\ ret.val.priority \in {"IGNORAR", "BAIXA"}
           /\ ( /\ _matches_any(blob, HIGH_PRIORITY_KEYWORDS)
                /\ _matches_any(blob, LOW_PRIORITY_PATTERNS)
                /\ ~_matches_any(blob, IGNORE_SUBJECT_PATTERNS) ) =>
                 /\ ret.val.priority = "ALTA"
                 /\ ret.val.score \in 80..100

-----------------------------------------------------------------------------
(* Properties of group_by_subject (checked under SpecGroup) *)

\* two subjects that are the same but for digits standing in the same places
SameButForDigits(a, b) ==
    /\ Len(a) = Len(b)
    /\ \A i \in 1..Len(a) : a[i] = b[i] \/ (a[i] \in Digits /\ b[i] \in Digits)

\* C8: two records of a batch that differ only in an embedded numeric id get
\* the same grouping key and become one entry with count 2.
C8_IdsCollapse ==
    (call.fn = "group_by_subject" /\ ret.done
        /\ SameButForDigits(call.arg[1].subject, call.arg[2].subject)) =>
        /\ GroupKey(call.arg[1].subject) = GroupKey(call.arg[2].subject)
        /\ Cardinality(DOMAIN ret.val) = 1
        /\ \A k \in DOMAIN ret.val : ret.val[k].n = 2

-----------------------------------------------------------------------------
(* Properties of prune_old (checked under SpecPrune) *)

\* C10: prune_old removes exactly the records with now - last_seen > ttl, keeps
\* the others as they are and leaves the other keys of the state alone.
C10_PruneExact ==
    (call.fn = "prune_old" /\ ret.done) =>
        LET st == call.arg.state
            ttl == call.arg.ttl_seconds
            old == ItemsOf(st)
            new == ret.val["items"]
        IN /\ DOMAIN ret.val = DOMAIN st \cup {"items"}
           /\ \A x \in DOMAIN st \ {"items"} : ret.val[x] = st[x]
           /\ DOMAIN new \subseteq DOMAIN old
           /\ \A k \in DOMAIN old :
                 "last_seen" \in DOMAIN old[k] =>
                    IF clk - old[k]["last_seen"] > ttl
                    THEN k \notin DOMAIN new
                    ELSE k \in DOMAIN new /\ new[k] = old[k]

\* C10 witness: TTL 14 days, one record last seen 20 days ago is removed and one
\* last seen exactly 14 days ago is kept, beside a ledger that stays
C10_Witness ==
    /\ call.fn = "prune_old"
    /\ ret.done
    /\ call.arg.ttl_seconds = Days(14)
    /\ "ran" \in DOMAIN call.arg.state
    /\ "items" \in DOMAIN call.arg.state
    /\ DOMAIN call.arg.state["items"] = {"k1", "k2"}
    /\ call.arg.state["items"]["k1"] = [f \in {"last_seen"} |-> clk - Days(20)]
    /\ call.arg.state["items"]["k2"] = [f \in {"last_seen"} |-> clk - Days(14)]
    /\ DOMAIN ret.val["items"] = {"k2"}

-----------------------------------------------------------------------------
(* Properties of _next_run and the sleep (checked under SpecSleep) *)

\* the instants of the configured slots on the date of `now` and on the next
SlotInstants(n) ==
    {d * DayLen + e.at : d \in {Day(n.sec), Day(n.sec) + 1}, e \in Range(schedule)}

\* the target is the earliest slot instant strictly later than now: the next
\* slot of today, or the first slot of tomorrow when none is left today
TargetIsNextSlot(n, val) ==
    /\ val.next_dt \in SlotInstants(n)
    /\ \E e \in Range(schedule) :
          e.slot = val.next_slot /\ e.at = Tod(val.next_dt)
    /\ Ticks(Whole(val.next_dt)) > Ticks(n)
    /\ \A t \in SlotInstants(n) :
          Ticks(Whole(t)) > Ticks(n) => t >= val.next_dt
    /\ Day(val.next_dt) = Day(n.sec) <=>
          \E e \in Range(schedule) : Ticks(Whole(Replace(n.sec, e.at))) > Ticks(n)
    /\ Day(val.next_dt) # Day(n.sec) =>
          val.next_dt = (Day(n.sec) + 1) * DayLen + schedule[1].at

\* the ticks from now to the target
ToTarget(n, val) == Ticks(Whole(val.next_dt)) - Ticks(n)

\* the sleep ends at or after the target only with the target's slot due: the
\* evaluation that follows finds it
NotSleptThrough(n, st, val) ==
    LET wake == n.sec + val.sleep_s
    IN (Ticks([sec |-> wake, sub |-> n.sub]) >= Ticks(Whole(val.next_dt))) =>
          /\ _today_key(wake) = _today_key(val.next_dt)
          /\ _should_run_now(wake, schedule, st) = val.next_slot

\* C13 as stated: with no slot due, the target is the next slot, and the loop
\* sleeps at least 1 second and never longer than the time to the target, so
\* that no slot is slept through.
C13_SleepNeverPastTarget ==
    (call.fn = "_next_run" /\ ret.done) =>
        LET n == call.arg.now
        IN /\ TargetIsNextSlot(n, ret.val)
           /\ ret.val.sleep_s >= 1
           /\ ret.val.sleep_s * SubSteps <= ToTarget(n, ret.val)
           /\ NotSleptThrough(n, call.arg.state, ret.val)

\* C13 amended: with no slot due, the target is the next slot; the loop sleeps
\* the time to the target cut to whole seconds, and 1 second when that is less
\* than 1 second: it wakes less than 1 second after the target at the latest,
\* on the target's date, and the evaluation that follows finds the slot due.
C13_SleepToTarget ==
    (call.fn = "_next_run" /\ ret.done) =>
        LET n == call.arg.now
            left == ToTarget(n, ret.val)
        IN /\ TargetIsNextSlot(n, ret.val)
           /\ ret.val.sleep_s >= 1
           /\ left >= SubSteps =>
                 /\ ret.val.sleep_s * SubSteps <= left
                 /\ left < (ret.val.sleep_s + 1) * SubSteps
           /\ left < SubSteps => ret.val.sleep_s = 1
           /\ ret.val.sleep_s * SubSteps < left + SubSteps
           /\ NotSleptThrough(n, call.arg.state, ret.val)

\* C13 witness: the clock is read less than a second before the 09:00 slot; the
\* loop sleeps 1 second and wakes after 09:00:00
C13_Witness ==
    /\ call.fn = "_next_run"
    /\ ret.done
    /\ call.arg.now.sec = 9 * Hour - 1
    /\ call.arg.now.sub > 0
    /\ ret.val.next_dt = 9 * Hour
    /\ ret.val.sleep_s = 1
    /\ _should_run_now(call.arg.now.sec + ret.val.sleep_s, schedule,
                       call.arg.state) = "09:00"

====
